---------------------------- MODULE Spec2Model ----------------------------
(***************************************************************************)
(* Model of the hunter regression digest of datastax/fallout-tests:        *)
(* src/scripts/create_send_email.py (summarise the detector output, keep   *)
(* the bad changes beyond the threshold, reconcile them with the log of    *)
(* regressions already sent).                                              *)
(*                                                                         *)
(* Text is a sequence of tokens.  A token is the newline character or a    *)
(* maximal newline-free fragment of a rendered change; every field value   *)
(* sits between quotes (or before "%.") inside its fragment, so two texts  *)
(* are equal, or one is a substring of the other, exactly when the token   *)
(* sequences are.  Metric names are sequences of characters, percent       *)
(* strings are decimal numerals with at most one fractional digit.         *)
(***************************************************************************)
EXTENDS Integers, Sequences, FiniteSets, TLC

VARIABLES
    pc,                      \* position of the modelled caller
    hunter_results,          \* argument hunter_results_list_of_dicts
    threshold,               \* argument threshold
    sha_lookup,              \* what the two commit lookups answer per date
    outcome,                 \* "none", "returned" or the exception raised
    bad_list,                \* list_of_all_bad_highly_signif_changes_w_context
    summary,                 \* value returned by get_list_of_signif_changes_w_context
    log_file,                \* content of LOG_FILE_W_MSG
    candidates,              \* argument list_of_bad_highly_signif_changes_w_context
    prev_candidates,         \* the candidates of the call before
    initial_lines,           \* argument initial_lines_in_log
    written,                 \* text the call appended to the log file
    new_changes_str,         \* value returned by create_file_w_regressions_sent_by_email
    runs,                    \* number of reconcile calls, or of runs of main, so far
    lookup_calls,            \* dates the commit lookups were called with, in call order
    n_files,                 \* length of LIST_OF_HUNTER_RESULTS_JSONS
    file_idx,                \* position of main's loop over the results files
    log_exists,              \* whether LOG_FILE_W_MSG exists
    new_changes_strings_list,\* main's list of the values returned per results file
    ledger_ops,              \* reads and writes of the log file in the current run
    email_msg,               \* new_changes given to create_email_w_hunter_regressions
    sent,                    \* the messages s.send_message has sent, oldest first
    txt_file,                \* content of TXT_FILE_W_MSG
    error,                   \* the exception that ended the current run, or "none"
    call,                    \* the utility function under call, or "none"
    args,                    \* its arguments
    result,                  \* what the call returned or raised
    csv_files,               \* rows of the six historical csv files, in the order of the saves
    hunter_df,               \* the six dataframes create_hunter_csv read at its start
    reports,                 \* the latest results directory: per test of LWT_TESTS_NAMES
    concat_df,               \* the six names concat_df_*, bound or not
    save_idx                 \* number of save_df_to_csv calls the run has made

vars == <<pc, hunter_results, threshold, sha_lookup, outcome, bad_list, summary,
          log_file, candidates, prev_candidates, initial_lines, written,
          new_changes_str, runs, lookup_calls, n_files, file_idx, log_exists,
          new_changes_strings_list, ledger_ops, email_msg, sent, txt_file, error,
          call, args, result, csv_files, hunter_df, reports, concat_df, save_idx>>

summarize_vars == <<hunter_results, threshold, sha_lookup, outcome, bad_list, summary,
                    lookup_calls>>
main_vars == <<n_files, file_idx, log_exists, new_changes_strings_list, ledger_ops,
               email_msg, sent, txt_file, error>>
reconcile_vars == <<log_file, candidates, prev_candidates, initial_lines, written,
                    new_changes_str, runs>>
utils_vars == <<call, args, result>>
csv_vars == <<csv_files, hunter_df, reports, concat_df, save_idx>>

---------------------------------------------------------------------------
(* Bounds of the model. *)
MaxPct == 3          \* integer part of the enumerated percent strings
MaxThreshold == 2    \* the enumerated thresholds are -MaxThreshold..MaxThreshold and 11
MaxChanges == 3      \* changes per timestamp entry in the enumerated batches
MaxEntries == 3      \* timestamp entries per test type in the enumerated batches
MaxRuns == 3         \* reconcile calls in a row
MaxFiles == 2        \* results files per run of main
MaxMainRuns == 2     \* runs of main in a row

THRESH_PERF_REGRESS == 11

---------------------------------------------------------------------------
(* Metric names, character by character. *)
Chars_totalOps == <<"t","o","t","a","l","O","p","s">>
Chars_opRate == <<"o","p","R","a","t","e">>
Chars_read == <<".","r","e","a","d">>
Chars_write == <<".","w","r","i","t","e">>
Chars_minLat == <<"m","i","n","L","a","t">>
Chars_avgLat == <<"a","v","g","L","a","t">>
Chars_medianLat == <<"m","e","d","i","a","n","L","a","t">>
Chars_p95 == <<"p","9","5">>
Chars_p99 == <<"p","9","9">>
Chars_p999 == <<"p","9","9",".","9">>
Chars_maxLat == <<"m","a","x","L","a","t">>
Chars_MAD == <<"M","A","D">>
Chars_IQR == <<"I","Q","R">>

\* The metrics whose decrease is bad, with the suffixes add_suffix_to_col gives them.
ThroughputMetrics ==
    {Chars_totalOps, Chars_opRate,
     Chars_totalOps \o Chars_read, Chars_totalOps \o Chars_write,
     Chars_opRate \o Chars_read, Chars_opRate \o Chars_write}

\* The metrics whose increase is bad.
LatencyBaseMetrics ==
    {Chars_minLat, Chars_avgLat, Chars_medianLat, Chars_p95, Chars_p99,
     Chars_p999, Chars_maxLat, Chars_MAD, Chars_IQR}

LatencyMetrics ==
    LatencyBaseMetrics \cup {Chars_avgLat \o Chars_read, Chars_p99 \o Chars_write}

KnownMetrics == ThroughputMetrics \cup LatencyMetrics

\* Names hunter could report that are no metric of the csv.
UnknownMetrics == {<<"e","r","r","o","r","s">>, Chars_opRate \o <<"E","r","r">>,
                   <<"O","p","R","a","t","e">>}

AllMetrics == KnownMetrics \cup UnknownMetrics

---------------------------------------------------------------------------
(* Percent strings and float(). *)
Fracs == {"", "0", "5"}              \* no fraction, ".0", ".5"
Pct(neg, int, frac) == [neg |-> neg, int |-> int, frac |-> frac]
P(n) == Pct(n < 0, IF n < 0 THEN -n ELSE n, "")

\* float(s) in tenths: "-12.5" is -125, "12" and "12.0" are both 120.
FloatTenths(s) ==
    LET mag == 10 * s.int + (IF s.frac = "5" THEN 5 ELSE 0)
    IN  IF s.neg THEN -mag ELSE mag

---------------------------------------------------------------------------
(* Text. *)
NoTime == <<>>
NoPct == Pct(FALSE, 0, "")

NL == [k |-> "nl", test |-> "", time |-> NoTime, cass |-> "", fall |-> "",
       metric |-> <<>>, pct |-> NoPct]

\* "\n", as the comments of create_file_w_regressions_sent_by_email name it
NEWLINE_SYMBOL == <<NL>>

\* "For the test '..' on date and time '..' that ran on cassandra Git commit SHA '..'
\*  and on fallout-tests Git commit SHA '..':"
HeadTok(test_type, time, cass_git_sha, fallout_tests_git_sha) ==
    [k |-> "head", test |-> test_type, time |-> time, cass |-> cass_git_sha,
     fall |-> fallout_tests_git_sha, metric |-> <<>>, pct |-> NoPct]

\* "\t The metric '..' changed by ..%."
TailTok(change) ==
    [k |-> "tail", test |-> "", time |-> NoTime, cass |-> "", fall |-> "",
     metric |-> change.metric, pct |-> change.forward_change_percent]

\* The f-string significant_change_w_context.
significant_change_w_context(test_type, time, cass_git_sha, fallout_tests_git_sha, change) ==
    <<HeadTok(test_type, time, cass_git_sha, fallout_tests_git_sha), NL,
      TailTok(change), NL>>

\* str.startswith
StartsWith(s, prefix) ==
    Len(prefix) <= Len(s) /\ SubSeq(s, 1, Len(prefix)) = prefix

\* x in s, for strings
IsSubstring(x, s) ==
    \E i \in 0..(Len(s) - Len(x)) : SubSeq(s, i + 1, i + Len(x)) = x

\* s.lstrip("\n")
RECURSIVE LStrip(_)
LStrip(s) == IF s # <<>> /\ Head(s) = NL THEN LStrip(Tail(s)) ELSE s

\* sep.join(list)
RECURSIVE Join(_, _)
Join(sep, list) ==
    IF list = <<>> THEN <<>>
    ELSE IF Len(list) = 1 THEN list[1]
    ELSE list[1] \o sep \o Join(sep, Tail(list))

\* s.split("\n\n"): cut at the leftmost occurrences, left to right
RECURSIVE SplitBlank(_)
SplitBlank(s) ==
    LET cuts == {i \in 1..(Len(s) - 1) : s[i] = NL /\ s[i + 1] = NL}
    IN  IF cuts = {} THEN <<s>>
        ELSE LET i == CHOOSE c \in cuts : \A d \in cuts : c <= d
             IN  <<SubSeq(s, 1, i - 1)>> \o SplitBlank(SubSeq(s, i + 2, Len(s)))

\* file.readlines(): the lines of the file, each with its newline
RECURSIVE ReadLines(_)
ReadLines(s) ==
    LET ends == {i \in 1..Len(s) : s[i] = NL}
    IN  IF s = <<>> THEN <<>>
        ELSE IF ends = {} THEN <<s>>
        ELSE LET i == CHOOSE c \in ends : \A d \in ends : c <= d
             IN  <<SubSeq(s, 1, i)>> \o ReadLines(SubSeq(s, i + 1, Len(s)))

\* s.replace(old, new): the occurrences of old, leftmost first, not overlapping
RECURSIVE StrReplace(_, _, _)
StrReplace(s, old, new) ==
    IF Len(s) < Len(old) THEN s
    ELSE IF SubSeq(s, 1, Len(old)) = old
         THEN new \o StrReplace(SubSeq(s, Len(old) + 1, Len(s)), old, new)
         ELSE <<Head(s)>> \o StrReplace(Tail(s), old, new)

\* A newline-free piece of fixed text.
TextTok(str) ==
    [k |-> "text", test |-> str, time |-> NoTime, cass |-> "", fall |-> "",
     metric |-> <<>>, pct |-> NoPct]

---------------------------------------------------------------------------
(* get_list_of_signif_changes_w_context *)

\* Variants of the threshold test with a plausible slip each.
IsBadHighlySignif_ExactName(change, thresh) ==
    IF change.metric = Chars_totalOps \/ change.metric = Chars_opRate
    THEN FloatTenths(change.forward_change_percent) < -(10 * thresh)
    ELSE FloatTenths(change.forward_change_percent) > 10 * thresh

IsBadHighlySignif_NotStrict(change, thresh) ==
    IF StartsWith(change.metric, Chars_totalOps) \/ StartsWith(change.metric, Chars_opRate)
    THEN FloatTenths(change.forward_change_percent) <= -(10 * thresh)
    ELSE FloatTenths(change.forward_change_percent) >= 10 * thresh

\* The threshold test of one change: TRUE when its text is appended.
IsBadHighlySignif(change, thresh) ==
    IF StartsWith(change.metric, Chars_totalOps) \/ StartsWith(change.metric, Chars_opRate)
    THEN FloatTenths(change.forward_change_percent) < -(10 * thresh)
    ELSE FloatTenths(change.forward_change_percent) > 10 * thresh

\* The inner loop over the changes of one timestamp entry.
RECURSIVE BadChangesOfEntry(_, _, _, _, _, _)
BadChangesOfEntry(test_type, time, cass_git_sha, fallout_tests_git_sha, changes, thresh) ==
    IF changes = <<>> THEN <<>>
    ELSE LET change == Head(changes)
             text == significant_change_w_context(
                         test_type, time, cass_git_sha, fallout_tests_git_sha, change)
         IN  (IF IsBadHighlySignif(change, thresh) THEN <<text>> ELSE <<>>)
             \o BadChangesOfEntry(test_type, time, cass_git_sha, fallout_tests_git_sha,
                                  Tail(changes), thresh)

\* dict_of_time_and_changes['time'].replace("-", "_").split(' ')[0]
ReplaceHyphens(time) == [i \in 1..Len(time) |-> IF time[i] = "-" THEN "_" ELSE time[i]]
FirstField(s) ==
    LET blanks == {i \in 1..Len(s) : s[i] = " "}
    IN  IF blanks = {} THEN s
        ELSE SubSeq(s, 1, (CHOOSE c \in blanks : \A d \in blanks : c <= d) - 1)
DateOf(time) == FirstField(ReplaceHyphens(time))

\* The loop over the timestamp entries of the test type; the lookups are keyed by
\* the date part of the entry's time.
RECURSIVE BadChangesOfEntries(_, _, _, _)
BadChangesOfEntries(test_type, entries, lookup, thresh) ==
    IF entries = <<>> THEN <<>>
    ELSE LET e == Head(entries)
             date == DateOf(e.time)
         IN  BadChangesOfEntry(test_type, e.time, lookup[date].cass, lookup[date].fall,
                               e.changes, thresh)
             \o BadChangesOfEntries(test_type, Tail(entries), lookup, thresh)

\* pd.Series(list).value_counts(), then the texts whose count is 1
Count(x, list) == Cardinality({i \in 1..Len(list) : list[i] = x})
\* Variant keeping one copy of a repeated text.
UniqueOnce_KeepFirst(list) ==
    LET firsts == {i \in 1..Len(list) : \A j \in 1..(i - 1) : list[j] # list[i]}
        RECURSIVE pick(_)
        pick(i) == IF i > Len(list) THEN <<>>
                   ELSE (IF i \in firsts THEN <<list[i]>> ELSE <<>>) \o pick(i + 1)
    IN  pick(1)

UniqueOnce(list) == SelectSeq(list, LAMBDA x : Count(x, list) = 1)

\* Variant whose loop over the timestamp entries ends at an entry without changes.
get_list_of_signif_changes_w_context_EmptyEntryEnds(results, thresh, lookup) ==
    IF results = <<>>
    THEN [outcome |-> "returned_None", bad |-> <<>>, ret |-> <<>>]
    ELSE LET hunter_dict == Head(results)
         IN  IF hunter_dict = <<>>
             THEN [outcome |-> "StopIteration", bad |-> <<>>, ret |-> <<>>]
             ELSE LET test_type == hunter_dict[1].key
                      entries == hunter_dict[1].value
                      empties == {i \in 1..Len(entries) : entries[i].changes = <<>>}
                      read == IF empties = {} THEN entries
                              ELSE SubSeq(entries, 1,
                                          (CHOOSE i \in empties : \A j \in empties : i <= j) - 1)
                      bad == BadChangesOfEntries(test_type, read, lookup, thresh)
                  IN  [outcome |-> "returned", bad |-> bad, ret |-> UniqueOnce(bad)]

\* The whole function: [outcome, bad, ret].  A dict is the sequence of its
\* (key, value) pairs in insertion order.
get_list_of_signif_changes_w_context(results, thresh, lookup) ==
    IF results = <<>>
    THEN [outcome |-> "returned_None", bad |-> <<>>, ret |-> <<>>]
    ELSE LET hunter_dict == Head(results)
         IN  IF hunter_dict = <<>>
             THEN [outcome |-> "StopIteration", bad |-> <<>>, ret |-> <<>>]
             ELSE LET test_type == hunter_dict[1].key
                      bad == BadChangesOfEntries(test_type, hunter_dict[1].value,
                                                 lookup, thresh)
                  IN  [outcome |-> "returned", bad |-> bad, ret |-> UniqueOnce(bad)]

\* The dates get_git_sha_for_cassandra and get_git_sha_for_fallout_tests are called
\* with during the call, in call order: both are called once per timestamp entry read.
LookupCalls(results) ==
    IF results = <<>> \/ Head(results) = <<>> THEN <<>>
    ELSE LET entries == Head(results)[1].value
         IN  [i \in 1..Len(entries) |-> DateOf(entries[i].time)]

---------------------------------------------------------------------------
(* create_file_w_regressions_sent_by_email *)
BlankLine == <<NL, NL>>                  \* the literal '\n\n'

\* The items of text_to_add that are no substring of the joined log lines.
NewItems(text_to_add, initial_lines_in_log_joined) ==
    SelectSeq(SplitBlank(text_to_add),
              LAMBDA item_list : ~IsSubstring(item_list, initial_lines_in_log_joined))

\* Variant that always writes every candidate.
TextToWrite_All(initial_lines_in_log, initial_lines_in_log_joined, text_to_add, new_changes) ==
    text_to_add

\* What text_file.writelines receives.
TextToWrite(initial_lines_in_log, initial_lines_in_log_joined, text_to_add, new_changes) ==
    IF Len(initial_lines_in_log) # 0 \/ initial_lines_in_log_joined # <<>>
    THEN new_changes
    ELSE text_to_add

\* Variant that writes the candidates also when it returns nothing new.
create_file_w_regressions_sent_by_email_AlwaysWrites(list, initial_lines_in_log) ==
    LET initial_lines_in_log_joined == LStrip(Join(<<>>, initial_lines_in_log))
        text_to_add == LStrip(Join(NEWLINE_SYMBOL, list))
        new_changes ==
            NEWLINE_SYMBOL \o Join(BlankLine, NewItems(text_to_add, initial_lines_in_log_joined))
    IN  IF /\ new_changes # NEWLINE_SYMBOL
           /\ initial_lines_in_log_joined # text_to_add
           /\ text_to_add # <<>>
        THEN [none |-> FALSE, text |-> new_changes,
              written |-> TextToWrite(initial_lines_in_log, initial_lines_in_log_joined,
                                      text_to_add, new_changes)]
        ELSE [none |-> TRUE, text |-> <<>>, written |-> text_to_add]

\* The whole function: [none, text, written].  none is TRUE when the call falls off
\* the end and returns None; written is what it appended to the log file.
create_file_w_regressions_sent_by_email(list, initial_lines_in_log) ==
    LET initial_lines_in_log_joined == LStrip(Join(<<>>, initial_lines_in_log))
        text_to_add == LStrip(Join(NEWLINE_SYMBOL, list))
        new_changes ==
            NEWLINE_SYMBOL \o Join(BlankLine, NewItems(text_to_add, initial_lines_in_log_joined))
    IN  IF /\ new_changes # NEWLINE_SYMBOL
           /\ initial_lines_in_log_joined # text_to_add
           /\ text_to_add # <<>>
        THEN [none |-> FALSE, text |-> new_changes,
              written |-> TextToWrite(initial_lines_in_log, initial_lines_in_log_joined,
                                      text_to_add, new_changes)]
        ELSE [none |-> TRUE, text |-> <<>>, written |-> <<>>]

\* Variant opening the log file with mode 'w'.
AppendToFile_Overwrite(content, text) == text

\* Variant whose write never reaches the file.
AppendToFile_Lost(content, text) == content

\* open(output_log_file_path, 'a') and text_file.writelines(text)
AppendToFile(content, text) == content \o text

---------------------------------------------------------------------------
(* Inputs of the summarising pass. *)
Time_01 == <<"2022", "-", "01", "-", "01", " ", "23:00:00">>
Time_02 == <<"2022", "-", "01", "-", "02", " ", "23:00:00">>
Time_01_noon == <<"2022", "-", "01", "-", "01", " ", "11:00:00">>
Times == {Time_01, Time_02}
Dates == {DateOf(t) : t \in Times}

NoSha == [cass |-> "", fall |-> ""]
LookupEmpty == [d \in Dates |-> NoSha]
LookupFound ==
    [d \in Dates |-> IF d = DateOf(Time_01) THEN [cass |-> "a1b2c3d", fall |-> "e4f5a6b"]
                     ELSE [cass |-> "0c9d8e7", fall |-> "e4f5a6b"]]
Lookups == {LookupEmpty, LookupFound}

Change(metric, pct) == [metric |-> metric, forward_change_percent |-> pct]
Entry(time, changes) == [time |-> time, changes |-> changes]
KV(key, value) == [key |-> key, value |-> value]

Thresholds == (-MaxThreshold..MaxThreshold) \cup {THRESH_PERF_REGRESS}
PctStrs == {Pct(n, i, f) : n \in BOOLEAN, i \in 0..MaxPct, f \in Fracs}

SeqsUpTo(S, n) == UNION {[1..k -> S] : k \in 0..n}

\* One result dict with one test type, one timestamp and one change.
SingleChangeInputs ==
    {[results |-> <<<<KV("lwt-fixed-100-partitions", <<Entry(Time_01, <<Change(m, p)>>)>>)>>>>,
      threshold |-> t, lookup |-> LookupEmpty] :
        m \in AllMetrics, p \in PctStrs, t \in Thresholds}

\* One test type with several timestamps and several changes, repeats included.
PaletteChanges ==
    {Change(Chars_avgLat, P(12)), Change(Chars_opRate, P(-12)), Change(Chars_p99, P(3))}
\* One timestamp entry with up to MaxChanges changes.
OneEntryBatches ==
    {<<Entry(t, c)>> : t \in Times, c \in SeqsUpTo(PaletteChanges, MaxChanges)}
\* Up to MaxEntries timestamp entries with one change each.
OneChangeEntries == {Entry(t, <<c>>) : t \in Times, c \in PaletteChanges}
ManyEntryBatches == SeqsUpTo(OneChangeEntries, MaxEntries)
BatchInputs ==
    {[results |-> <<<<KV("lwt-rated-100-partitions", es)>>>>, threshold |-> t, lookup |-> l] :
        es \in OneEntryBatches \cup ManyEntryBatches,
        t \in {0, THRESH_PERF_REGRESS}, l \in Lookups}

\* The batch of test_get_list_of_signif_changes_w_context.
FixtureBatch ==
    <<<<KV("lwt-fixed-100-partitions",
        <<Entry(Time_01,
                <<Change(Chars_totalOps, P(-10)), Change(Chars_avgLat, P(20)),
                  Change(Chars_p99, P(30)), Change(Chars_opRate, P(-20)),
                  Change(Chars_p95, P(-25)), Change(Chars_maxLat, P(50))>>),
          Entry(Time_02,
                <<Change(Chars_totalOps, P(-5)), Change(Chars_avgLat, P(10)),
                  Change(Chars_p99, P(15)), Change(Chars_opRate, P(15)),
                  Change(Chars_p95, P(15)), Change(Chars_maxLat, P(30))>>)>>)>>>>
FixtureInputs ==
    {[results |-> FixtureBatch, threshold |-> t, lookup |-> LookupEmpty] : t \in Thresholds}

\* Lists of zero, one or two result dicts, each with zero, one or two test types.
DictShapes ==
    {<<>>,
     <<KV("lwt-fixed-100-partitions", <<Entry(Time_01, <<Change(Chars_avgLat, P(12))>>)>>)>>,
     <<KV("lwt-fixed-100-partitions", <<Entry(Time_01, <<>>)>>),
       KV("lwt-rated-100-partitions", <<Entry(Time_02, <<Change(Chars_maxLat, P(12))>>)>>)>>,
     <<KV("lwt-rated-100-partitions", <<>>)>>}
ShapeInputs ==
    {[results |-> r, threshold |-> t, lookup |-> l] :
        r \in SeqsUpTo(DictShapes, 2), t \in {0, THRESH_PERF_REGRESS}, l \in Lookups}

\* Two timestamp entries of one test type, on the same date or on two dates.
SameDateInputs ==
    {[results |-> <<<<KV("lwt-fixed-100-partitions",
                        <<Entry(t1, <<Change(Chars_avgLat, P(12))>>),
                          Entry(t2, <<Change(Chars_p99, P(12))>>)>>)>>>>,
      threshold |-> THRESH_PERF_REGRESS, lookup |-> l] :
        t1 \in {Time_01, Time_01_noon}, t2 \in {Time_01_noon, Time_02}, l \in Lookups}

\* Timestamp entries with and without changes, in any order.
EmptyEntryPalette ==
    {Entry(Time_01, <<>>), Entry(Time_01, <<Change(Chars_avgLat, P(12))>>),
     Entry(Time_02, <<Change(Chars_opRate, P(-12)), Change(Chars_p99, P(12))>>)}
EmptyEntryInputs ==
    {[results |-> <<<<KV("lwt-fixed-100-partitions", es)>>>>,
      threshold |-> THRESH_PERF_REGRESS, lookup |-> l] :
        es \in SeqsUpTo(EmptyEntryPalette, 3), l \in Lookups}

SummarizeInputs ==
    SingleChangeInputs \cup BatchInputs \cup FixtureInputs \cup ShapeInputs
        \cup SameDateInputs \cup EmptyEntryInputs

---------------------------------------------------------------------------
(* The summarising pass as a state machine: the arguments are drawn at the   *)
(* start, one step applies get_list_of_signif_changes_w_context to them.     *)
ReconcileIdle ==
    /\ log_file = <<>>
    /\ candidates = <<>>
    /\ prev_candidates = <<>>
    /\ initial_lines = <<>>
    /\ written = <<>>
    /\ new_changes_str = [none |-> TRUE, text |-> <<>>]
    /\ runs = 0

MainIdle ==
    /\ n_files = 0
    /\ file_idx = 0
    /\ log_exists = FALSE
    /\ new_changes_strings_list = <<>>
    /\ ledger_ops = <<>>
    /\ email_msg = <<>>
    /\ sent = <<>>
    /\ txt_file = <<>>
    /\ error = "none"

UtilsIdle ==
    /\ call = "none"
    /\ args = <<>>
    /\ result = <<>>

CsvIdle ==
    /\ csv_files = <<>>
    /\ hunter_df = <<>>
    /\ reports = <<>>
    /\ concat_df = <<>>
    /\ save_idx = 0

InitSummarize ==
    /\ pc = "start"
    /\ \E in \in SummarizeInputs :
          /\ hunter_results = in.results
          /\ threshold = in.threshold
          /\ sha_lookup = in.lookup
    /\ outcome = "none"
    /\ bad_list = <<>>
    /\ summary = <<>>
    /\ lookup_calls = <<>>
    /\ ReconcileIdle
    /\ MainIdle
    /\ UtilsIdle
    /\ CsvIdle

SummarizeCall ==
    /\ pc = "start"
    /\ LET r == get_list_of_signif_changes_w_context(hunter_results, threshold, sha_lookup)
       IN  /\ outcome' = r.outcome
           /\ bad_list' = r.bad
           /\ summary' = r.ret
    /\ lookup_calls' = LookupCalls(hunter_results)
    /\ pc' = "done"
    /\ UNCHANGED <<hunter_results, threshold, sha_lookup>>
    /\ UNCHANGED reconcile_vars
    /\ UNCHANGED main_vars
    /\ UNCHANGED <<utils_vars, csv_vars>>

NextSummarize == SummarizeCall

SpecSummarize == InitSummarize /\ [][NextSummarize]_vars

---------------------------------------------------------------------------
(* Vocabulary of the properties of the summarising pass. *)
InList(x, list) == \E i \in 1..Len(list) : list[i] = x

\* The timestamp entries the pass reads: those of the first test type of the
\* first result dict.
ProcessedEntries ==
    IF hunter_results # <<>> /\ Head(hunter_results) # <<>>
    THEN Head(hunter_results)[1].value ELSE <<>>
ProcessedTestType ==
    IF hunter_results # <<>> /\ Head(hunter_results) # <<>>
    THEN Head(hunter_results)[1].key ELSE ""
ProcessedPositions ==
    UNION {{<<e, c>> : c \in 1..Len(ProcessedEntries[e].changes)} :
             e \in 1..Len(ProcessedEntries)}
ChangeAt(pos) == ProcessedEntries[pos[1]].changes[pos[2]]
TextAt(pos) ==
    LET e == ProcessedEntries[pos[1]]
    IN  significant_change_w_context(ProcessedTestType, e.time,
            sha_lookup[DateOf(e.time)].cass, sha_lookup[DateOf(e.time)].fall, ChangeAt(pos))
Occurrences(pos) == Cardinality({q \in ProcessedPositions : TextAt(q) = TextAt(pos)})

\* The direction table of the metrics, name by name.
Value(change) == FloatTenths(change.forward_change_percent)
Magnitude(change) == IF Value(change) < 0 THEN -Value(change) ELSE Value(change)
RegressingDirection(change) ==
    \/ change.metric \in ThroughputMetrics /\ Value(change) < 0
    \/ change.metric \in LatencyMetrics /\ Value(change) > 0
ImprovingDirection(change) ==
    \/ change.metric \in ThroughputMetrics /\ Value(change) > 0
    \/ change.metric \in LatencyMetrics /\ Value(change) < 0

SummarizeDone == pc = "done" /\ outcome = "returned"

C3_ImprovementsNeverReported ==
    SummarizeDone =>
        \A pos \in ProcessedPositions :
            ImprovingDirection(ChangeAt(pos)) => ~InList(TextAt(pos), summary)

\* C4: a change whose metric is outside the known set ends the pass with an
\* UnknownMetricKind error and is not in the returned list (here already with a
\* threshold >= 0).
C4_UnknownMetricRejected ==
    (pc = "done" /\ threshold >= 0) =>
        \A pos \in ProcessedPositions :
            ChangeAt(pos).metric \notin KnownMetrics =>
                /\ outcome = "UnknownMetricKind"
                /\ ~InList(TextAt(pos), summary)

\* The nine texts test_get_list_of_signif_changes_w_context expects.
FixtureText(time, change) ==
    significant_change_w_context("lwt-fixed-100-partitions", time, "", "", change)
C5_FixtureExpected ==
    {FixtureText(Time_01, Change(Chars_avgLat, P(20))),
     FixtureText(Time_01, Change(Chars_p99, P(30))),
     FixtureText(Time_01, Change(Chars_opRate, P(-20))),
     FixtureText(Time_01, Change(Chars_p95, P(-25))),
     FixtureText(Time_01, Change(Chars_maxLat, P(50))),
     FixtureText(Time_02, Change(Chars_p99, P(15))),
     FixtureText(Time_02, Change(Chars_opRate, P(15))),
     FixtureText(Time_02, Change(Chars_p95, P(15))),
     FixtureText(Time_02, Change(Chars_maxLat, P(30)))}

\* C5: on the batch of the test with threshold 11 the pass returns exactly 9 records:
\* avgLat, p99, opRate, p95, maxLat of the first timestamp and p99, opRate, p95,
\* maxLat of the second.
C5_FixtureNineRecords ==
    (pc = "done" /\ hunter_results = FixtureBatch /\ threshold = THRESH_PERF_REGRESS
        /\ sha_lookup = LookupEmpty) =>
        /\ outcome = "returned"
        /\ Len(summary) = 9
        /\ {summary[i] : i \in 1..Len(summary)} = C5_FixtureExpected

\* C6: a text kept two or more times as a bad change of the pass is absent from the
\* returned list; a text kept exactly once is in the returned list exactly once.
C6_DuplicateSuppression ==
    SummarizeDone =>
        \A i \in 1..Len(bad_list) :
            /\ Count(bad_list[i], bad_list) >= 2 => Count(bad_list[i], summary) = 0
            /\ Count(bad_list[i], bad_list) = 1 => Count(bad_list[i], summary) = 1

C6_Witness ==
    /\ SummarizeDone
    /\ \E i, j \in 1..Len(bad_list) :
          /\ Count(bad_list[i], bad_list) >= 2
          /\ Count(bad_list[j], bad_list) = 1
          /\ InList(bad_list[j], summary)
          /\ ~InList(bad_list[i], summary)

\* Every change of the batch: result dict, test type, timestamp entry, change.
AllPositions ==
    UNION {UNION {UNION {{<<d, k, e, c>> :
                            c \in 1..Len(hunter_results[d][k].value[e].changes)} :
                         e \in 1..Len(hunter_results[d][k].value)} :
                  k \in 1..Len(hunter_results[d])} :
           d \in 1..Len(hunter_results)}
ChangeOf(pos) == hunter_results[pos[1]][pos[2]].value[pos[3]].changes[pos[4]]
TextOf(pos) ==
    LET kv == hunter_results[pos[1]][pos[2]]
        e == kv.value[pos[3]]
    IN  significant_change_w_context(kv.key, e.time, sha_lookup[DateOf(e.time)].cass,
                                     sha_lookup[DateOf(e.time)].fall, ChangeOf(pos))

\* C22: every change of every test type of every result dict that is a regression
\* beyond the threshold, and whose text no other change of the batch renders to, is
\* in the returned list (here with a threshold >= 0).
C22_CompleteOverBatch ==
    (pc = "done" /\ threshold >= 0) =>
        \A pos \in AllPositions :
            (/\ RegressingDirection(ChangeOf(pos))
             /\ Magnitude(ChangeOf(pos)) > 10 * threshold
             /\ \A q \in AllPositions : TextOf(q) = TextOf(pos) => q = pos)
            => InList(TextOf(pos), summary)

\* The batch without its timestamp entries that have no change.
WithoutEmptyEntries(results) ==
    [d \in 1..Len(results) |->
        [k \in 1..Len(results[d]) |->
            KV(results[d][k].key,
               SelectSeq(results[d][k].value, LAMBDA e : e.changes # <<>>))]]
HasEmptyEntry == \E e \in 1..Len(ProcessedEntries) : ProcessedEntries[e].changes = <<>>

\* C28: a timestamp entry without changes adds no record and raises nothing, and the
\* pass keeps and returns what it keeps and returns for the batch without that entry.
C28_EmptyEntryIsNoOp ==
    (pc = "done" /\ HasEmptyEntry) =>
        LET r == get_list_of_signif_changes_w_context(
                     WithoutEmptyEntries(hunter_results), threshold, sha_lookup)
        IN  /\ outcome = "returned"
            /\ bad_list = r.bad
            /\ summary = r.ret

\* An entry without changes between two entries whose changes are returned.
C28_Witness ==
    /\ pc = "done"
    /\ Len(ProcessedEntries) = 3
    /\ ProcessedEntries[1].changes # <<>>
    /\ ProcessedEntries[2].changes = <<>>
    /\ ProcessedEntries[3].changes # <<>>
    /\ Len(summary) = 3

\* C20: within one pass each commit lookup is called at most once per distinct date,
\* also when several timestamp entries of the batch have the same date.
C20_LookupsMemoizedPerDate ==
    pc = "done" =>
        \A i, j \in 1..Len(lookup_calls) : lookup_calls[i] = lookup_calls[j] => i = j

---------------------------------------------------------------------------
(* Reconciling with the log file, as the loop body of main does: read the    *)
(* lines of the log file, call create_file_w_regressions_sent_by_email.      *)
CandidateChanges ==
    {Change(Chars_avgLat, P(12)), Change(Chars_opRate, P(-12)), Change(Chars_p99, P(12))}
CandidateTexts ==
    {significant_change_w_context("lwt-fixed-100-partitions", Time_01, "", "", c) :
        c \in CandidateChanges}

\* A list the summarising pass can return: texts without repeats, in any order.
CandidateLists ==
    {l \in SeqsUpTo(CandidateTexts, Cardinality(CandidateTexts)) :
        \A i, j \in 1..Len(l) : l[i] = l[j] => i = j}

SummarizeIdle ==
    /\ hunter_results = <<>>
    /\ threshold = THRESH_PERF_REGRESS
    /\ sha_lookup = LookupEmpty
    /\ outcome = "none"
    /\ bad_list = <<>>
    /\ summary = <<>>
    /\ lookup_calls = <<>>

InitReconcile ==
    /\ pc = "reconcile"
    /\ SummarizeIdle
    /\ ReconcileIdle
    /\ MainIdle
    /\ UtilsIdle
    /\ CsvIdle

ReconcileCall ==
    /\ pc = "reconcile"
    /\ runs < MaxRuns
    /\ \E list \in CandidateLists :
          LET initial_log_lines == ReadLines(log_file)
              r == create_file_w_regressions_sent_by_email(list, initial_log_lines)
          IN  /\ candidates' = list
              /\ prev_candidates' = candidates
              /\ initial_lines' = initial_log_lines
              /\ written' = r.written
              /\ new_changes_str' = [none |-> r.none, text |-> r.text]
              /\ log_file' = AppendToFile(log_file, r.written)
    /\ runs' = runs + 1
    /\ UNCHANGED pc
    /\ UNCHANGED summarize_vars
    /\ UNCHANGED main_vars
    /\ UNCHANGED <<utils_vars, csv_vars>>

NextReconcile == ReconcileCall

SpecReconcile == InitReconcile /\ [][NextReconcile]_vars

---------------------------------------------------------------------------
(* Vocabulary of the properties of the reconciling call. *)
\* A rendered text without its final newline.
Body(text) == SubSeq(text, 1, Len(text) - 1)
\* The candidate texts a piece of text holds.
RecordsIn(text) == {c \in CandidateTexts : IsSubstring(Body(c), text)}
LedgerBefore == Join(<<>>, initial_lines)
NewSet == IF new_changes_str.none THEN {} ELSE RecordsIn(new_changes_str.text)
Called == pc = "reconcile" /\ runs >= 1
SameRecords(l1, l2) ==
    /\ Len(l1) = Len(l2)
    /\ {l1[i] : i \in 1..Len(l1)} = {l2[i] : i \in 1..Len(l2)}

\* C7: a candidate is in the returned new set iff its rendered text is not
\* an entry of the ledger read by the call, whatever the order of the candidates.
C7_ExactSetDifference ==
    Called =>
        \A i \in 1..Len(candidates) :
            candidates[i] \in NewSet <=> candidates[i] \notin RecordsIn(LedgerBefore)

\* C8: the records of the text appended to the log file are the records of the
\* returned text, with an empty and with a non-empty log file.
C8_PersistedEqualsForwarded ==
    Called => RecordsIn(written) = NewSet

C8_Witness ==
    /\ Called
    /\ initial_lines # <<>>
    /\ written # <<>>
    /\ \E i \in 1..Len(candidates) : candidates[i] \notin RecordsIn(written)

\* C9: with a non-empty log and exactly one candidate that is not in it, the
\* text appended and the text returned are that candidate's rendered text, nothing
\* before it and nothing after it.
C9_ExactTextNoSeparators ==
    (Called /\ initial_lines # <<>>) =>
        \A i \in 1..Len(candidates) :
            (\A j \in 1..Len(candidates) :
                candidates[j] \notin RecordsIn(LedgerBefore) <=> j = i)
            => /\ written = candidates[i]
               /\ ~new_changes_str.none
               /\ new_changes_str.text = candidates[i]

\* C10: a call with the candidates of the call before, in the same or in
\* another order, returns nothing new and appends nothing.
C10_Idempotence ==
    (Called /\ runs >= 2 /\ SameRecords(candidates, prev_candidates)) =>
        /\ NewSet = {}
        /\ written = <<>>

\* C11: with the log file as the call read it, every other ordering of the same
\* candidates makes the call return the same text and append the same text.
C11_OrderIndependence ==
    Called =>
        \A other \in CandidateLists :
            SameRecords(other, candidates) =>
                LET r == create_file_w_regressions_sent_by_email(other, initial_lines)
                IN  /\ r.none = new_changes_str.none
                    /\ r.text = new_changes_str.text
                    /\ r.written = written

\* C14: when the new set the call computed is empty (no candidate, or every candidate
\* found in the log), the call appended nothing: the log file is what the call read.
C14_EmptyNewSetLeavesLedger ==
    (Called /\ NewSet = {}) =>
        /\ written = <<>>
        /\ log_file = LedgerBefore

\* A call with candidates that were all in a non-empty log file.
C14_Witness ==
    /\ Called
    /\ candidates # <<>>
    /\ initial_lines # <<>>
    /\ NewSet = {}
    /\ log_file = LedgerBefore

IsPrefix(a, b) == Len(a) <= Len(b) /\ SubSeq(b, 1, Len(a)) = a

\* C17: the log file is append-only: in every step the content before is a prefix of
\* the content after.
C17_AppendOnly == [][IsPrefix(log_file, log_file')]_vars

\* A call appended to a log file that already had content.
C17_Witness ==
    /\ Called
    /\ initial_lines # <<>>
    /\ written # <<>>
    /\ Len(log_file) > Len(LedgerBefore)

\* The entries of the log file: the pieces between its blank lines.
LedgerEntries == IF log_file = <<>> THEN <<>> ELSE SplitBlank(log_file)
EntryIsOneRecord(e) == \E c \in CandidateTexts : e = c \/ e = Body(c)

OccurrencesIn(x, text) ==
    Cardinality({i \in 0..(Len(text) - Len(x)) : SubSeq(text, i + 1, i + Len(x)) = x})

\* C18: after any sequence of calls from an empty log file, every piece of the log
\* file between two blank lines is one record: any two consecutive records are
\* separated by a blank line (here already for a log file that holds no record twice).
C18_LedgerFormat ==
    (Called /\ \A c \in CandidateTexts : OccurrencesIn(Body(c), log_file) <= 1) =>
        \A i \in 1..Len(LedgerEntries) : EntryIsOneRecord(LedgerEntries[i])

---------------------------------------------------------------------------
(* main: one run loops over the results files; per file it summarises the    *)
(* detector output, reads the log file and reconciles; after the loop it     *)
(* joins the returned strings and, if there is anything new, writes the      *)
(* email and sends it.  The log file and the sent messages outlive a run.    *)

\* Variant of the join that takes a None as the newline symbol.
new_changes_str_concat_NoneAsNewline(strings_list) ==
    [raised |-> FALSE,
     text |-> Join(<<>>, [i \in 1..Len(strings_list) |->
                            IF strings_list[i].none THEN NEWLINE_SYMBOL
                            ELSE strings_list[i].text])]

\* ''.join(new_changes_strings_list): a None in the list raises TypeError.
new_changes_str_concat(strings_list) ==
    [raised |-> \E i \in 1..Len(strings_list) : strings_list[i].none,
     text |-> Join(<<>>, [i \in 1..Len(strings_list) |-> strings_list[i].text])]

TEMPLATE_MSG ==
    <<TextTok("Hello,"), NL, NL,
      TextTok("Please find the performance regressions detected by hunter as follows:"),
      NL, NL, NL, NL, TextTok("Best regards,"), NL, NL, TextTok("Marianne")>>

\* Variant replacing every blank line of the template.
create_email_w_hunter_regressions_EveryBlankLine(new_changes) ==
    StrReplace(TEMPLATE_MSG, <<NL, NL>>, <<NL, NL>> \o new_changes \o <<NL>>)

\* What create_email_w_hunter_regressions writes to TXT_FILE_W_MSG.
create_email_w_hunter_regressions(new_changes) ==
    StrReplace(TEMPLATE_MSG, <<NL, NL, NL>>, <<NL, NL>> \o new_changes \o <<NL>>)

\* The two tests main makes before it creates and sends the email.
ShouldSend(concat) == concat # NEWLINE_SYMBOL /\ concat # <<>>

\* What get_list_of_dict_from_json hands to main for one results file: no dict, an
\* empty dict, a test type without timestamp entries, or one timestamp entry with
\* changes beyond the threshold, in any order.
MainChanges == {Change(Chars_avgLat, P(12)), Change(Chars_p99, P(12))}
MainChangeLists ==
    {l \in SeqsUpTo(MainChanges, Cardinality(MainChanges)) :
        l # <<>> /\ \A i, j \in 1..Len(l) : l[i] = l[j] => i = j}
MainResults ==
    {<<>>, <<<<>>>>, <<<<KV("lwt-fixed-100-partitions", <<>>)>>>>}
    \cup {<<<<KV("lwt-fixed-100-partitions", <<Entry(Time_01, l)>>)>>>> : l \in MainChangeLists}

\* One access of the log file by the run.
LedgerOp(op, file) == [op |-> op, file |-> file]

\* Variant reading the log file a second time.
ReadOps_Reread(exists, file) ==
    IF exists THEN <<LedgerOp("read", file), LedgerOp("read", file)>> ELSE <<>>

\* The reads of the log file before one reconcile call: one if the file exists.
ReadOps(exists, file) == IF exists THEN <<LedgerOp("read", file)>> ELSE <<>>

InitMain ==
    /\ pc = "main_start"
    /\ SummarizeIdle
    /\ ReconcileIdle
    /\ n_files \in 1..MaxFiles
    /\ file_idx = 0
    /\ log_exists = FALSE
    /\ new_changes_strings_list = <<>>
    /\ ledger_ops = <<>>
    /\ email_msg = <<>>
    /\ sent = <<>>
    /\ txt_file = <<>>
    /\ error = "none"
    /\ UtilsIdle
    /\ CsvIdle

\* A run begins: the process is new, only the files are as the runs before left
\* them; the commit lookups may answer differently from one run to the next.
MainStart ==
    /\ pc = "main_start"
    /\ runs < MaxMainRuns
    /\ runs' = runs + 1
    /\ file_idx' = 1
    /\ new_changes_strings_list' = <<>>
    /\ ledger_ops' = <<>>
    /\ email_msg' = <<>>
    /\ error' = "none"
    /\ pc' = "summarize"
    /\ sha_lookup' \in Lookups
    /\ hunter_results' = <<>>
    /\ outcome' = "none"
    /\ bad_list' = <<>>
    /\ summary' = <<>>
    /\ lookup_calls' = <<>>
    /\ candidates' = <<>>
    /\ prev_candidates' = <<>>
    /\ initial_lines' = <<>>
    /\ written' = <<>>
    /\ new_changes_str' = [none |-> TRUE, text |-> <<>>]
    /\ UNCHANGED <<threshold, log_file, n_files, log_exists, sent, txt_file>>
    /\ UNCHANGED <<utils_vars, csv_vars>>

\* get_list_of_dict_from_json and get_list_of_signif_changes_w_context for one file.
MainSummarize ==
    /\ pc = "summarize"
    /\ \E results \in MainResults :
          LET r == get_list_of_signif_changes_w_context(results, threshold, sha_lookup)
          IN  /\ hunter_results' = results
              /\ outcome' = r.outcome
              /\ bad_list' = r.bad
              /\ summary' = r.ret
              /\ lookup_calls' = LookupCalls(results)
              /\ IF r.outcome = "StopIteration"
                 THEN error' = "StopIteration" /\ pc' = "main_start"
                 ELSE error' = error /\ pc' = "read_log"
    /\ UNCHANGED <<threshold, sha_lookup>>
    /\ UNCHANGED reconcile_vars
    /\ UNCHANGED <<n_files, file_idx, log_exists, new_changes_strings_list, ledger_ops,
                   email_msg, sent, txt_file>>
    /\ UNCHANGED <<utils_vars, csv_vars>>

\* The lines of the log file, if the file exists.
MainReadLog ==
    /\ pc = "read_log"
    /\ initial_lines' = IF log_exists THEN ReadLines(log_file) ELSE <<>>
    /\ ledger_ops' = ledger_ops \o ReadOps(log_exists, file_idx)
    /\ pc' = "reconcile_file"
    /\ UNCHANGED summarize_vars
    /\ UNCHANGED <<log_file, candidates, prev_candidates, written, new_changes_str, runs>>
    /\ UNCHANGED <<n_files, file_idx, log_exists, new_changes_strings_list, email_msg,
                   sent, txt_file, error>>
    /\ UNCHANGED <<utils_vars, csv_vars>>

\* create_file_w_regressions_sent_by_email for one file, and the end of the loop body.
\* The log file is opened (and so created) before the candidates are joined; joining
\* None raises TypeError.
MainReconcile ==
    /\ pc = "reconcile_file"
    /\ log_exists' = TRUE
    /\ IF outcome = "returned_None"
       THEN /\ error' = "TypeError"
            /\ pc' = "main_start"
            /\ UNCHANGED <<log_file, candidates, prev_candidates, written, new_changes_str,
                           new_changes_strings_list, ledger_ops, file_idx>>
       ELSE LET r == create_file_w_regressions_sent_by_email(summary, initial_lines)
            IN  /\ candidates' = summary
                /\ prev_candidates' = candidates
                /\ written' = r.written
                /\ new_changes_str' = [none |-> r.none, text |-> r.text]
                /\ log_file' = AppendToFile(log_file, r.written)
                /\ ledger_ops' = IF r.none THEN ledger_ops
                                 ELSE Append(ledger_ops, LedgerOp("append", file_idx))
                /\ new_changes_strings_list' =
                       Append(new_changes_strings_list, [none |-> r.none, text |-> r.text])
                /\ IF file_idx < n_files
                   THEN file_idx' = file_idx + 1 /\ pc' = "summarize"
                   ELSE file_idx' = file_idx /\ pc' = "concat"
                /\ error' = error
    /\ UNCHANGED summarize_vars
    /\ UNCHANGED <<initial_lines, runs>>
    /\ UNCHANGED <<n_files, email_msg, sent, txt_file>>
    /\ UNCHANGED <<utils_vars, csv_vars>>

\* The join of the returned strings and the decision to create and send the email.
MainConcat ==
    /\ pc = "concat"
    /\ LET c == new_changes_str_concat(new_changes_strings_list)
       IN  IF c.raised
           THEN error' = "TypeError" /\ pc' = "main_start" /\ UNCHANGED <<email_msg, txt_file>>
           ELSE IF ShouldSend(c.text)
           THEN /\ email_msg' = LStrip(c.text)
                /\ txt_file' = create_email_w_hunter_regressions(LStrip(c.text))
                /\ pc' = "send"
                /\ UNCHANGED error
           ELSE pc' = "main_start" /\ UNCHANGED <<email_msg, txt_file, error>>
    /\ UNCHANGED summarize_vars
    /\ UNCHANGED reconcile_vars
    /\ UNCHANGED <<n_files, file_idx, log_exists, new_changes_strings_list, ledger_ops,
                   sent>>
    /\ UNCHANGED <<utils_vars, csv_vars>>

\* read_txt_send_email: the credentials or the SMTP session may fail; then nothing
\* is sent.
MainSend ==
    /\ pc = "send"
    /\ \E delivered \in BOOLEAN :
          IF delivered
          THEN sent' = Append(sent, txt_file) /\ UNCHANGED error
          ELSE error' = "TransportFailure" /\ UNCHANGED sent
    /\ pc' = "main_start"
    /\ UNCHANGED summarize_vars
    /\ UNCHANGED reconcile_vars
    /\ UNCHANGED <<n_files, file_idx, log_exists, new_changes_strings_list, ledger_ops,
                   email_msg, txt_file>>
    /\ UNCHANGED <<utils_vars, csv_vars>>

NextMain ==
    \/ MainStart
    \/ MainSummarize
    \/ MainReadLog
    \/ MainReconcile
    \/ MainConcat
    \/ MainSend

SpecMain == InitMain /\ [][NextMain]_vars

---------------------------------------------------------------------------
(* Vocabulary of the properties of main. *)
RunEnded == pc = "main_start" /\ runs >= 1
\* No results file of the run has yielded a new record so far.
NoNews == \A i \in 1..Len(new_changes_strings_list) : new_changes_strings_list[i].none
\* The detector data of the file read last is empty.
EmptyDetectorData ==
    \/ hunter_results = <<>>
    \/ Head(hunter_results) = <<>>
    \/ Head(hunter_results)[1].value = <<>>
\* The texts the changes of main's results files render to, with either answer of
\* the commit lookups, and those a piece of text holds.
MainTexts ==
    {significant_change_w_context("lwt-fixed-100-partitions", Time_01,
                                  l[DateOf(Time_01)].cass, l[DateOf(Time_01)].fall, c) :
        c \in MainChanges, l \in Lookups}
MainRecordsIn(text) == {c \in MainTexts : IsSubstring(Body(c), text)}
\* The messages sent that hold the record.
SentWith(c) == {i \in 1..Len(sent) : IsSubstring(Body(c), sent[i])}

\* C12: over any sequence of runs, a rendered record is in the new-changes text of
\* at most one message sent, and at most once in it.
C12_AtMostOnceNotification ==
    \A c \in MainTexts :
        /\ Cardinality(SentWith(c)) <= 1
        /\ \A i \in 1..Len(sent) : OccurrencesIn(Body(c), sent[i]) <= 1

\* C13: when the email is about to be sent, and when the send has failed, every
\* results file of the run has been reconciled and every record of the email is in
\* the log file; the send step writes nothing to the log file, and a failed send
\* sends nothing, a successful one the whole message.
C13_AtSend ==
    (pc = "send" \/ error = "TransportFailure") =>
        /\ Len(new_changes_strings_list) = n_files
        /\ MainRecordsIn(email_msg) # {}
        /\ MainRecordsIn(email_msg) \subseteq MainRecordsIn(log_file)
C13_SendStep ==
    pc = "send" =>
        /\ log_file' = log_file
        /\ error' = "TransportFailure" => sent' = sent
        /\ sent' # sent => sent' = Append(sent, txt_file)
C13_SendAfterPersist == [](C13_AtSend) /\ [][C13_SendStep]_vars

\* A send failed after records of two results files were appended to the log file.
C13_Witness ==
    /\ error = "TransportFailure"
    /\ n_files = 2
    /\ Cardinality(MainRecordsIn(email_msg)) = 2
    /\ MainRecordsIn(email_msg) \subseteq MainRecordsIn(log_file)
    /\ sent = <<>>

\* C15: in a run in which no results file yields a new record, no email is composed
\* and the send step is not reached.
C15_NoEmailWithoutNews ==
    (runs >= 1 /\ pc \in {"send", "main_start"} /\ NoNews) =>
        /\ pc # "send"
        /\ email_msg = <<>>

\* A run over two results files whose records were all in the log file already.
C15_Witness ==
    /\ RunEnded
    /\ n_files = 2
    /\ Len(new_changes_strings_list) = 2
    /\ NoNews
    /\ candidates # <<>>
    /\ log_file # <<>>
    /\ email_msg = <<>>

\* C16: a run whose last results file had empty detector data, or in which no file
\* yielded a new record, ends without an exception.
C16_EmptyInputRecovered ==
    (RunEnded /\ (EmptyDetectorData \/ NoNews)) => error = "none"

\* The template before and after the place of the new changes.
TemplateHeader ==
    <<TextTok("Hello,"), NL, NL,
      TextTok("Please find the performance regressions detected by hunter as follows:")>>
TemplateFooter == <<TextTok("Best regards,"), NL, NL, TextTok("Marianne")>>

\* C23: the body written for a non-empty new-changes text is the header of the
\* template, a blank line, the new-changes text exactly once, a blank line and the
\* footer of the template.
C23_DigestComposition ==
    pc = "send" =>
        /\ email_msg # <<>>
        /\ txt_file = TemplateHeader \o <<NL, NL>> \o email_msg \o <<NL, NL>> \o TemplateFooter
        /\ OccurrencesIn(email_msg, txt_file) = 1

\* An email with the records of two results files.
C23_Witness ==
    /\ pc = "send"
    /\ Cardinality(MainRecordsIn(email_msg)) = 2
    /\ OccurrencesIn(TemplateHeader, txt_file) = 1
    /\ OccurrencesIn(TemplateFooter, txt_file) = 1

\* The run has sent its email.
SentThisRun == email_msg # <<>> /\ sent # <<>> /\ sent[Len(sent)] = txt_file

\* C26: when a run ends without a transport failure, every record a reconcile call
\* of the run appended to the log file is in the email the run sent.
C26_NoLostNotification ==
    (RunEnded /\ error # "TransportFailure") =>
        \A i \in 1..Len(new_changes_strings_list) :
            ~new_changes_strings_list[i].none =>
                /\ SentThisRun
                /\ MainRecordsIn(new_changes_strings_list[i].text) \subseteq MainRecordsIn(txt_file)

\* The same change rendered with another answer of the commit lookups.
SameChangeOtherProvenance(c, v) ==
    /\ c # v
    /\ c[1].test = v[1].test /\ c[1].time = v[1].time
    /\ c[3] = v[3]

\* After a reconcile call of main: a candidate whose change is in the log file read
\* by the call only with another provenance is returned as new and appended.
C27_TreatedAsNew ==
    (pc \in {"summarize", "concat"} /\ new_changes_strings_list # <<>>) =>
        \A i \in 1..Len(candidates) :
            (/\ \E v \in MainTexts :
                    /\ SameChangeOtherProvenance(candidates[i], v)
                    /\ IsSubstring(Body(v), LedgerBefore)
             /\ ~IsSubstring(Body(candidates[i]), LedgerBefore))
            => /\ ~new_changes_str.none
               /\ IsSubstring(Body(candidates[i]), new_changes_str.text)
               /\ IsSubstring(Body(candidates[i]), written)
               /\ IsSubstring(Body(candidates[i]), log_file)

\* At the end of a run without transport failure: a record appended in the run,
\* whose change the log file also holds with another provenance, is in the email
\* the run sent.
C27_NotifiedAgain ==
    (RunEnded /\ error # "TransportFailure") =>
        \A i \in 1..Len(new_changes_strings_list) :
            \A c \in MainRecordsIn(new_changes_strings_list[i].text) :
                (\E v \in MainRecordsIn(log_file) : SameChangeOtherProvenance(c, v))
                => (SentThisRun /\ c \in MainRecordsIn(txt_file))

\* C27: a change seen again in a later run with another answer of the commit lookups
\* is treated as new, appended to the log file again and notified again.
C27_ProvenanceIsIdentity == C27_TreatedAsNew /\ C27_NotifiedAgain

---------------------------------------------------------------------------
(* The utility functions of src/scripts/utils.py and                        *)
(* src/scripts/cassandra_email/utils.py.  A string is a sequence of pieces; *)
(* no piece straddles a separator the code splits at or a literal it looks  *)
(* for, so two strings are equal, or one holds the other, exactly when the  *)
(* sequences of pieces are.  The empty string is the empty sequence.        *)
MaxLines == 3        \* lines of the enumerated JSON-lines files
MaxStats == 2        \* entries of the enumerated 'stats' lists
MaxCommits == 2      \* commits in the enumerated outputs of git log
MaxRows == 2         \* rows of the enumerated historical csv

\* What a call gives back: a value of python, or the exception raised.
Str(s) == [kind |-> "str", val |-> s]
None == [kind |-> "None", val |-> <<>>]
Raise(exception) == [kind |-> "raise", val |-> <<exception>>]

\* s.split(sep)
RECURSIVE SplitOn(_, _)
SplitOn(s, sep) ==
    LET cuts == {i \in 1..Len(s) : s[i] = sep}
    IN  IF cuts = {} THEN <<s>>
        ELSE LET i == CHOOSE c \in cuts : \A d \in cuts : c <= d
             IN  <<SubSeq(s, 1, i - 1)>> \o SplitOn(SubSeq(s, i + 1, Len(s)), sep)

Whitespace == {" ", "\n"}

\* s.strip()
RECURSIVE Strip(_)
Strip(s) ==
    IF s = <<>> THEN s
    ELSE IF Head(s) \in Whitespace THEN Strip(Tail(s))
    ELSE IF s[Len(s)] \in Whitespace THEN Strip(SubSeq(s, 1, Len(s) - 1))
    ELSE s

\* s.split(): the fields between runs of whitespace
Split(s) ==
    SelectSeq(SplitOn(StrReplace(s, <<"\n">>, <<" ">>), " "), LAMBDA field : field # <<>>)

---------------------------------------------------------------------------
(* get_list_of_dict_from_json *)

\* One member of the JSON object a line holds.
Member(key, value) == <<key, value>>

\* json.loads of a line: the dict of its members, the last member of a key winning
json_loads(line) ==
    [key \in {line[i][1] : i \in DOMAIN line} |->
        line[CHOOSE i \in DOMAIN line :
                /\ line[i][1] = key
                /\ \A j \in DOMAIN line : line[j][1] = key => j <= i][2]]

RECURSIVE AppendDicts(_, _)
AppendDicts(json_file, hunter_result_list_of_dicts) ==
    IF json_file = <<>> THEN hunter_result_list_of_dicts
    ELSE AppendDicts(Tail(json_file),
                     Append(hunter_result_list_of_dicts, json_loads(Head(json_file))))

get_list_of_dict_from_json(json_file) ==
    [kind |-> "list", val |-> AppendDicts(json_file, <<>>)]

---------------------------------------------------------------------------
(* get_relevant_dict *)

EmptyDict == [key \in {} |-> 0]

\* d.update(e)
DictUpdate(d, e) ==
    [key \in DOMAIN d \cup DOMAIN e |-> IF key \in DOMAIN e THEN e[key] ELSE d[key]]

RECURSIVE RelevantDictFrom(_, _, _)
RelevantDictFrom(stats, test_phase, relevant_dict) ==
    IF stats = <<>> THEN relevant_dict
    ELSE LET dict_test_run == Head(stats)
         IN  RelevantDictFrom(
                 Tail(stats), test_phase,
                 IF /\ IsSubstring(<<"result-success">>, dict_test_run["test"])
                    /\ IsSubstring(test_phase, dict_test_run["test"])
                 THEN DictUpdate(relevant_dict, dict_test_run)
                 ELSE relevant_dict)

\* Variant: the phase is not looked at.
get_relevant_dict_AnyPhase(dict_of_dicts, test_phase) ==
    [kind |-> "dict", val |-> RelevantDictFrom(dict_of_dicts["stats"], <<>>, EmptyDict)]

get_relevant_dict(dict_of_dicts, test_phase) ==
    [kind |-> "dict", val |-> RelevantDictFrom(dict_of_dicts["stats"], test_phase, EmptyDict)]

---------------------------------------------------------------------------
(* get_git_sha_prospective *)

CASSANDRA_PROJ_DIR == <<"/", "home", "/", "ec2-user", "/", "cassandra">>
FALLOUT_TESTS_PROJ_DIR == <<"/", "home", "/", "ec2-user", "/", "fallout-tests">>
HUNTER_CSV_PROJ_DIR == <<"/", "home", "/", "ec2-user", "/", "hunter_csv">>
CASSANDRA_COL_NAME == "commit"
FALLOUT_TESTS_COL_NAME == "fallout_tests_commit"

\* df[col].iloc[-1]
ILocLast(df, col) ==
    IF df = <<>> THEN Raise("IndexError") ELSE Str(df[Len(df)][col])

\* Variant: the commits since two days ago are not asked for.
get_git_sha_prospective_NoSecondLog(log_since_yesterday, log_since_two_days_ago, df_retrospective, cwd) ==
    LET gitsha == Strip(log_since_yesterday)
        split_gitsha == Split(gitsha)
    IN  IF Len(split_gitsha) > 0 THEN Str(split_gitsha[1])
        ELSE IF cwd = CASSANDRA_PROJ_DIR
             THEN ILocLast(df_retrospective, CASSANDRA_COL_NAME)
        ELSE IF cwd = FALLOUT_TESTS_PROJ_DIR
             THEN ILocLast(df_retrospective, FALLOUT_TESTS_COL_NAME)
        ELSE Str(<<>>)

\* The two arguments log_since_* are what the two git log commands print; the
\* second command runs only when the first printed nothing.
get_git_sha_prospective(log_since_yesterday, log_since_two_days_ago, df_retrospective, cwd) ==
    LET first == Strip(log_since_yesterday)
        gitsha == IF first = <<>> THEN Strip(log_since_two_days_ago) ELSE first
        split_gitsha == Split(gitsha)
    IN  IF Len(split_gitsha) > 0 THEN Str(split_gitsha[1])
        ELSE IF cwd = CASSANDRA_PROJ_DIR
             THEN ILocLast(df_retrospective, CASSANDRA_COL_NAME)
        ELSE IF cwd = FALLOUT_TESTS_PROJ_DIR
             THEN ILocLast(df_retrospective, FALLOUT_TESTS_COL_NAME)
        ELSE Str(<<>>)

---------------------------------------------------------------------------
(* get_git_sha_retrospective.  The counters are those of the code, lists    *)
(* are indexed from 0 there and from 1 here.                                *)

LWT_TEST_RUN_EXEC_TIME == <<"23", ":", "00", ":", "00">>

\* int() of the two-digit numerals of the enumerated times
IntOf ==
    ("00" :> 0) @@ ("09" :> 9) @@ ("10" :> 10) @@ ("17" :> 17) @@ ("23" :> 23) @@ ("30" :> 30)

\* datetime.strptime(time, FMT_TIME), as seconds of the day
strptime(time) == IntOf[time[1]] * 3600 + IntOf[time[3]] * 60 + IntOf[time[5]]

\* list.pop(i)
Pop(list, i) == SubSeq(list, 1, i) \o SubSeq(list, i + 2, Len(list))

\* gitsha.replace('\n', ',').replace(' ', ',').split(',')
CommaList(gitsha) ==
    SplitOn(StrReplace(StrReplace(gitsha, <<"\n">>, <<",">>), <<" ">>, <<",">>), ",")

\* The loop that removes the time zones.
RECURSIVE PopTimeZones(_, _)
PopTimeZones(gitsha_until_list, counter_until) ==
    IF counter_until < Len(gitsha_until_list) - 3
    THEN PopTimeZones(Pop(gitsha_until_list, counter_until + 3), counter_until + 3)
    ELSE gitsha_until_list

\* The loop that collects the local times.
RECURSIVE LocalTimes(_, _, _, _)
LocalTimes(gitsha_local_list, counter_local, counter_loop, list_of_local_times) ==
    IF counter_local < Len(gitsha_local_list) - 4
    THEN LET next == counter_local + (IF counter_loop < 1 THEN 4 ELSE 6)
         IN  LocalTimes(gitsha_local_list, next, counter_loop + 1,
                        Append(list_of_local_times, gitsha_local_list[next + 1]))
    ELSE list_of_local_times

\* The loop that puts the local times in the place of the times.
RECURSIVE ReplaceTimes(_, _, _, _)
ReplaceTimes(gitsha_until_list, list_of_local_times, counter_loop, counter_until_replace) ==
    IF list_of_local_times = <<>> THEN gitsha_until_list
    ELSE LET at == IF counter_loop < 1 THEN counter_until_replace + 2
                   ELSE counter_until_replace
         IN  ReplaceTimes([gitsha_until_list EXCEPT ![at + 1] = Head(list_of_local_times)],
                          Tail(list_of_local_times), counter_loop + 1, at + 3)

\* The inner while of the final search: further commits of the given date.
RECURSIVE SameDateSearch(_, _, _)
SameDateSearch(given_date, gitsha_until_list, counter_date) ==
    IF counter_date = Len(gitsha_until_list) - 3
    THEN [kind |-> "continue", val |-> counter_date]
    ELSE LET next == counter_date + 3
         IN  IF next + 1 > Len(gitsha_until_list) THEN Raise("IndexError")
             ELSE IF given_date = gitsha_until_list[next + 1]
             THEN IF next + 2 > Len(gitsha_until_list) THEN Raise("IndexError")
                  ELSE IF strptime(gitsha_until_list[next + 2]) <= strptime(LWT_TEST_RUN_EXEC_TIME)
                  THEN Str(gitsha_until_list[next])
                  ELSE SameDateSearch(given_date, gitsha_until_list, next)
             ELSE SameDateSearch(given_date, gitsha_until_list, next)

\* The final search; the function ends without a return statement when the
\* while loop is left.
RECURSIVE FinalSearch(_, _, _)
FinalSearch(given_date, gitsha_until_list, counter_date) ==
    IF counter_date = Len(gitsha_until_list) - 1 THEN None
    ELSE LET next == counter_date + 1
         IN  IF given_date = gitsha_until_list[next + 1]
             THEN IF next + 2 > Len(gitsha_until_list) THEN Raise("IndexError")
                  ELSE IF strptime(gitsha_until_list[next + 2]) <= strptime(LWT_TEST_RUN_EXEC_TIME)
                  THEN Str(gitsha_until_list[next])
                  ELSE LET inner == SameDateSearch(given_date, gitsha_until_list, next)
                       IN  IF inner.kind = "continue"
                           THEN FinalSearch(given_date, gitsha_until_list, inner.val)
                           ELSE inner
             ELSE Str(gitsha_until_list[next])

\* The two arguments log_until* are what the two git log commands print.
get_git_sha_retrospective(given_date, log_until, log_until_local) ==
    LET given_date_list == SplitOn(given_date, "_")
        gitsha_until_list == CommaList(Strip(log_until))
        gitsha_local_list == CommaList(Strip(log_until_local))
        list_of_local_times == LocalTimes(gitsha_local_list, 0, 0, <<>>)
    IN  IF Len(given_date_list) < 3 THEN Raise("IndexError")
        ELSE FinalSearch(given_date,
                         ReplaceTimes(PopTimeZones(gitsha_until_list, 0),
                                      list_of_local_times, 0, 0),
                         0)

---------------------------------------------------------------------------
(* The enumerated arguments of the utility functions. *)

JsonLine(test_type, changes) == <<Member("test_type", test_type), Member("changes", changes)>>

\* The three lines of the file tests/scripts/test_utils.py writes.
JsonLines ==
    {JsonLine("100-fixed", 25), JsonLine("1000-fixed", 30), JsonLine("10000-fixed", 35)}

JsonFileArgs == {[json_file |-> f] : f \in SeqsUpTo(JsonLines, MaxLines)}

TestNames ==
    {<<"result-success", "-", "read">>, <<"result-success", "-", "write">>,
     <<"result-success", "-", "create-ks">>, <<"failed", "-", "read">>}

StatsEntries ==
    {("test" :> name) @@ ("Op Rate" :> 9966) : name \in TestNames}
    \cup {("test" :> name) @@ ("Avg Latency" :> 3) : name \in TestNames}

TestPhases == {<<"read">>, <<"write">>}

RelevantDictArgs ==
    {[dict_of_dicts |-> ("stats" :> stats), test_phase |-> phase] :
        stats \in SeqsUpTo(StatsEntries, MaxStats), phase \in TestPhases}

Commit(sha, day, time, zone, weekday, local_time) ==
    [sha |-> sha, day |-> day, time |-> time, zone |-> zone, weekday |-> weekday,
     local_time |-> local_time]

\* Three commits, the most recent first.
CommitPalette ==
    <<Commit("abc1234", "05", <<"23", ":", "30", ":", "00">>, "+0000", "Wed",
             <<"23", ":", "30", ":", "00">>),
      Commit("def5678", "05", <<"10", ":", "00", ":", "00">>, "-0700", "Wed",
             <<"17", ":", "00", ":", "00">>),
      Commit("0a1b2c3", "04", <<"09", ":", "00", ":", "00">>, "+0000", "Tue",
             <<"09", ":", "00", ":", "00">>)>>

\* One line of git log --pretty=format:'%h %ci'
CiLine(c) ==
    <<c.sha, " ", "2022", "-", "01", "-", c.day, " ">> \o c.time \o <<" ", c.zone>>

\* One line of git log --pretty=format:'%h %cd' --date=local
CdLine(c) ==
    <<c.sha, " ", c.weekday, " ", "Jan", " ", c.day, " ">> \o c.local_time \o <<" ", "2022">>

\* The histories git log can print: commits of the palette, the most recent first.
Histories ==
    {h \in SeqsUpTo(DOMAIN CommitPalette, MaxCommits) :
        \A i, j \in DOMAIN h : i < j => h[i] < h[j]}

GitLogCi(h) == Join(<<"\n">>, [i \in DOMAIN h |-> CiLine(CommitPalette[h[i]])])
GitLogCd(h) == Join(<<"\n">>, [i \in DOMAIN h |-> CdLine(CommitPalette[h[i]])])

\* Dates as strftime(FMT_Y_D_M) renders them: the 6th and the 7th of January 2022.
GivenDates == {<<"2022", "_", "06", "_", "01">>, <<"2022", "_", "07", "_", "01">>}

RetrospectiveArgs ==
    {[given_date |-> d, log_until |-> GitLogCi(h), log_until_local |-> GitLogCd(h)] :
        d \in GivenDates, h \in Histories}

Row(cassandra_commit, fallout_tests_commit) ==
    [commit |-> <<cassandra_commit>>, fallout_tests_commit |-> <<fallout_tests_commit>>]

CsvRows == {Row("c1c1c1c", "f1f1f1f"), Row("c2c2c2c", "f2f2f2f")}

\* What git log -1 prints: nothing, or the line of the latest commit in range.
LatestCommitLogs == {<<>>} \cup {CiLine(CommitPalette[i]) : i \in DOMAIN CommitPalette}

\* A commit since yesterday is also the latest commit since two days ago.
ProspectiveArgs ==
    {[log_since_yesterday |-> y, log_since_two_days_ago |-> t, df_retrospective |-> df,
      cwd |-> d] :
        y \in LatestCommitLogs, t \in LatestCommitLogs,
        df \in SeqsUpTo(CsvRows, MaxRows),
        d \in {CASSANDRA_PROJ_DIR, FALLOUT_TESTS_PROJ_DIR, HUNTER_CSV_PROJ_DIR}}

---------------------------------------------------------------------------
(* The calls of the utility functions as a state machine: the function and  *)
(* its arguments are drawn at the start, one step applies the function.     *)
InitUtils ==
    /\ pc = "start"
    /\ \/ call = "get_list_of_dict_from_json" /\ args \in JsonFileArgs
       \/ call = "get_relevant_dict" /\ args \in RelevantDictArgs
       \/ call = "get_git_sha_prospective" /\ args \in ProspectiveArgs
                /\ (args.log_since_yesterday # <<>>
                      => args.log_since_two_days_ago = args.log_since_yesterday)
       \/ call = "get_git_sha_retrospective" /\ args \in RetrospectiveArgs
    /\ result = <<>>
    /\ SummarizeIdle
    /\ ReconcileIdle
    /\ MainIdle
    /\ CsvIdle

UtilsReturn(value) ==
    /\ result' = value
    /\ pc' = "done"
    /\ UNCHANGED <<call, args>>
    /\ UNCHANGED summarize_vars
    /\ UNCHANGED reconcile_vars
    /\ UNCHANGED main_vars
    /\ UNCHANGED csv_vars

GetListOfDictFromJsonCall ==
    /\ pc = "start"
    /\ call = "get_list_of_dict_from_json"
    /\ UtilsReturn(get_list_of_dict_from_json(args.json_file))

GetRelevantDictCall ==
    /\ pc = "start"
    /\ call = "get_relevant_dict"
    /\ UtilsReturn(get_relevant_dict(args.dict_of_dicts, args.test_phase))

GetGitShaProspectiveCall ==
    /\ pc = "start"
    /\ call = "get_git_sha_prospective"
    /\ UtilsReturn(get_git_sha_prospective(args.log_since_yesterday,
                                           args.log_since_two_days_ago,
                                           args.df_retrospective, args.cwd))

GetGitShaRetrospectiveCall ==
    /\ pc = "start"
    /\ call = "get_git_sha_retrospective"
    /\ UtilsReturn(get_git_sha_retrospective(args.given_date, args.log_until,
                                             args.log_until_local))

NextUtils ==
    \/ GetListOfDictFromJsonCall
    \/ GetRelevantDictCall
    \/ GetGitShaProspectiveCall
    \/ GetGitShaRetrospectiveCall

SpecUtils == InitUtils /\ [][NextUtils]_vars

---------------------------------------------------------------------------
(* Vocabulary of the properties of the utility functions. *)
Returned(function) == call = function /\ pc = "done"

\* The entries of the 'stats' list a call of get_relevant_dict was given.
StatsGiven == args.dict_of_dicts["stats"]

HasResultSuccess(entry) == IsSubstring(<<"result-success">>, entry["test"])

\* The positions of the entries naming both 'result-success' and the phase.
Matching ==
    {i \in DOMAIN StatsGiven :
        HasResultSuccess(StatsGiven[i]) /\ IsSubstring(args.test_phase, StatsGiven[i]["test"])}

\* The short hash at the start of a line of git log.
HashOf(line) == <<Head(line)>>

---------------------------------------------------------------------------
\* C21: for a JSON-lines file of n >= 1 lines, get_list_of_dict_from_json returns a
\* list of exactly one dict, the one parsed from the last line of the file.
C21_OnlyLastLineConsumed ==
    (Returned("get_list_of_dict_from_json") /\ Len(args.json_file) >= 1)
        => /\ result.kind = "list"
           /\ result.val = <<json_loads(args.json_file[Len(args.json_file)])>>

\* C25: get_relevant_dict returns the stats entry whose 'test' names both
\* 'result-success' and the requested phase; it returns the empty dict when no
\* entry names 'result-success', and when entries name it but not the phase.
C25_RelevantDict ==
    Returned("get_relevant_dict")
        => /\ result.kind = "dict"
           /\ Cardinality(Matching) = 1
                 => \A i \in Matching : result.val = StatsGiven[i]
           /\ (\A i \in DOMAIN StatsGiven : ~HasResultSuccess(StatsGiven[i]))
                 => result.val = EmptyDict
           /\ ((\E i \in DOMAIN StatsGiven : HasResultSuccess(StatsGiven[i])) /\ Matching = {})
                 => result.val = EmptyDict

\* A 'read' call over two entries: the successful write entry, then the
\* successful read entry, which is returned.
C25_Witness ==
    /\ Returned("get_relevant_dict")
    /\ args.test_phase = <<"read">>
    /\ Len(StatsGiven) = 2
    /\ StatsGiven[1]["test"] = <<"result-success", "-", "write">>
    /\ Matching = {2}
    /\ result.val = StatsGiven[2]

\* C24: for every date and every commit history the lookup functions return a
\* string (a short hash, or the empty string) and never raise or return a
\* value that is no string.
C24_LookupReturnsString ==
    (Returned("get_git_sha_retrospective") \/ Returned("get_git_sha_prospective"))
        => result.kind = "str"

\* C29: get_git_sha_prospective returns the hash of the latest commit since
\* yesterday when there is one; otherwise that of the latest commit since two
\* days ago when there is one; otherwise the value of the last row of the
\* historical csv in the column of the repository the working directory is;
\* otherwise, in any other working directory, the empty string.
C29_FallbackChain ==
    Returned("get_git_sha_prospective")
        => LET y == args.log_since_yesterday
               t == args.log_since_two_days_ago
               df == args.df_retrospective
           IN  /\ y # <<>> => result = Str(HashOf(y))
               /\ (y = <<>> /\ t # <<>>) => result = Str(HashOf(t))
               /\ (y = <<>> /\ t = <<>> /\ df # <<>> /\ args.cwd = CASSANDRA_PROJ_DIR)
                     => result = Str(df[Len(df)].commit)
               /\ (y = <<>> /\ t = <<>> /\ df # <<>> /\ args.cwd = FALLOUT_TESTS_PROJ_DIR)
                     => result = Str(df[Len(df)].fallout_tests_commit)
               /\ (y = <<>> /\ t = <<>>
                   /\ args.cwd \notin {CASSANDRA_PROJ_DIR, FALLOUT_TESTS_PROJ_DIR})
                     => result = Str(<<>>)

\* No commit since yesterday, one since two days ago: its hash is returned.
C29_Witness ==
    /\ Returned("get_git_sha_prospective")
    /\ args.log_since_yesterday = <<>>
    /\ args.log_since_two_days_ago = CiLine(CommitPalette[3])
    /\ Len(args.df_retrospective) = 2
    /\ result = Str(<<"0a1b2c3">>)

---------------------------------------------------------------------------
(* The prospective branch of src/scripts/create_hunter_csv.py: the nightly  *)
(* update of the six historical csv files.                                 *)
MaxCsvRuns == 2      \* nightly runs of create_hunter_csv

LwtTestName(load, partitions) == <<"lwt", "-", load, "-", partitions, "-", "partitions">>

LWT_TESTS_NAMES ==
    <<LwtTestName("fixed", "100"), LwtTestName("fixed", "1000"), LwtTestName("fixed", "10000"),
      LwtTestName("rated", "100"), LwtTestName("rated", "1000"), LwtTestName("rated", "10000")>>

FIXED_100_CSV_NAME == "hunter-lwt-fixed-100-partitions-w-two-git-shas"
RATED_100_CSV_NAME == "hunter-lwt-rated-100-partitions-w-two-git-shas"
FIXED_1000_CSV_NAME == "hunter-lwt-fixed-1000-partitions-w-two-git-shas"
RATED_1000_CSV_NAME == "hunter-lwt-rated-1000-partitions-w-two-git-shas"
FIXED_10000_CSV_NAME == "hunter-lwt-fixed-10000-partitions-w-two-git-shas"
RATED_10000_CSV_NAME == "hunter-lwt-rated-10000-partitions-w-two-git-shas"

LIST_OF_CSV_NAMES ==
    <<FIXED_100_CSV_NAME, RATED_100_CSV_NAME, FIXED_1000_CSV_NAME,
      RATED_1000_CSV_NAME, FIXED_10000_CSV_NAME, RATED_10000_CSV_NAME>>

CsvNames == {LIST_OF_CSV_NAMES[i] : i \in DOMAIN LIST_OF_CSV_NAMES}

\* The six save_df_to_csv calls, in their order: the name saved and the file.
Saves ==
    <<[df |-> "concat_df_100_fixed", csv |-> FIXED_100_CSV_NAME],
      [df |-> "concat_df_100_rated", csv |-> RATED_100_CSV_NAME],
      [df |-> "concat_df_1000_fixed", csv |-> FIXED_1000_CSV_NAME],
      [df |-> "concat_df_1000_rated", csv |-> RATED_1000_CSV_NAME],
      [df |-> "concat_df_10000_fixed", csv |-> FIXED_10000_CSV_NAME],
      [df |-> "concat_df_10000_rated", csv |-> RATED_10000_CSV_NAME]>>

ConcatNames == {Saves[i].df : i \in DOMAIN Saves}

\* A name that no assignment has bound yet.
Unbound == [bound |-> FALSE, rows |-> <<>>]
Bound(rows) == [bound |-> TRUE, rows |-> rows]

\* What the latest results directory holds for one test: no performance-report.json,
\* a report with an empty 'stats' list, or a report with statistics.
ReportStates == {"no_path", "empty_stats", "stats"}

\* The row of one test run: its date and the test it is of.
HunterRow(date, test_type) == [time |-> date, test |-> test_type]

\* generate_hunter_df: the rows of the dataframe, none for the empty dataframe
generate_hunter_df(report, test_type, date) ==
    IF report = "no_path" THEN <<>>
    ELSE IF report = "empty_stats" THEN <<>>
    ELSE <<HunterRow(date, test_type)>>

\* get_hunter_df_w_test_type: the dataframe and the test type
get_hunter_df_w_test_type(report, test_type, date) ==
    LET hunter_df_out == generate_hunter_df(report, test_type, date)
    IN  IF report = "no_path" \/ hunter_df_out = <<>>
        THEN [df |-> <<>>, type_of_test |-> <<>>]
        ELSE [df |-> hunter_df_out, type_of_test |-> test_type]

\* The first loop of the branch: the dataframes and test types that are not empty.
RECURSIVE CollectReports(_, _, _, _)
CollectReports(the_reports, date, i, collected) ==
    IF i > Len(LWT_TESTS_NAMES) THEN collected
    ELSE LET r == get_hunter_df_w_test_type(the_reports[i], LWT_TESTS_NAMES[i], date)
         IN  CollectReports(the_reports, date, i + 1,
                            IF r.type_of_test # <<>> /\ r.df # <<>>
                            THEN Append(collected, r) ELSE collected)

Infix(load, partitions) == <<"-", load, "-", partitions, "-">>

\* The if/elif chain of the second loop: the name and the csv a test type goes to.
ConcatTarget(type_of_test) ==
    IF IsSubstring(Infix("fixed", "100"), type_of_test) THEN Saves[1]
    ELSE IF IsSubstring(Infix("rated", "100"), type_of_test) THEN Saves[2]
    ELSE IF IsSubstring(Infix("fixed", "1000"), type_of_test) THEN Saves[3]
    ELSE IF IsSubstring(Infix("rated", "1000"), type_of_test) THEN Saves[4]
    ELSE IF IsSubstring(Infix("fixed", "10000"), type_of_test) THEN Saves[5]
    ELSE IF IsSubstring(Infix("rated", "10000"), type_of_test) THEN Saves[6]
    ELSE [df |-> "", csv |-> ""]

\* The second loop: pd.concat of the dataframe read at the start and the new one.
RECURSIVE ConcatAll(_, _, _)
ConcatAll(collected, read_df, names) ==
    IF collected = <<>> THEN names
    ELSE LET target == ConcatTarget(Head(collected).type_of_test)
         IN  ConcatAll(Tail(collected), read_df,
                       IF target.df = "" THEN names
                       ELSE [names EXCEPT ![target.df] =
                                Bound(read_df[target.csv] \o Head(collected).df)])

InitCsv ==
    /\ pc = "csv_start"
    /\ csv_files = [name \in CsvNames |-> <<HunterRow(0, name)>>]
    /\ hunter_df = <<>>
    /\ reports = <<>>
    /\ concat_df = <<>>
    /\ save_idx = 0
    /\ SummarizeIdle
    /\ ReconcileIdle
    /\ MainIdle
    /\ UtilsIdle

\* The run begins: the six csv files are read, the latest results directory is
\* the one of this night.
CsvStart ==
    /\ pc = "csv_start"
    /\ runs < MaxCsvRuns
    /\ runs' = runs + 1
    /\ hunter_df' = csv_files
    /\ reports' \in [DOMAIN LWT_TESTS_NAMES -> ReportStates]
    /\ concat_df' = [name \in ConcatNames |-> Unbound]
    /\ save_idx' = 0
    /\ error' = "none"
    /\ pc' = "csv_collect"
    /\ UNCHANGED csv_files
    /\ UNCHANGED summarize_vars
    /\ UNCHANGED <<log_file, candidates, prev_candidates, initial_lines, written,
                   new_changes_str>>
    /\ UNCHANGED <<n_files, file_idx, log_exists, new_changes_strings_list, ledger_ops,
                   email_msg, sent, txt_file>>
    /\ UNCHANGED utils_vars

\* The two loops over the reports.
CsvCollect ==
    /\ pc = "csv_collect"
    /\ concat_df' = ConcatAll(CollectReports(reports, runs, 1, <<>>), hunter_df, concat_df)
    /\ pc' = "csv_save"
    /\ UNCHANGED <<csv_files, hunter_df, reports, save_idx>>
    /\ UNCHANGED summarize_vars
    /\ UNCHANGED reconcile_vars
    /\ UNCHANGED main_vars
    /\ UNCHANGED utils_vars

\* One save_df_to_csv call; a name that was never bound raises NameError.  With
\* the end of the run the names of the process are gone.
CsvSave ==
    /\ pc = "csv_save"
    /\ LET save == Saves[save_idx + 1]
       IN  IF ~concat_df[save.df].bound
           THEN /\ error' = "NameError"
                /\ pc' = "csv_start"
                /\ concat_df' = <<>>
                /\ reports' = <<>>
                /\ UNCHANGED <<csv_files, save_idx>>
           ELSE /\ csv_files' = [csv_files EXCEPT ![save.csv] = concat_df[save.df].rows]
                /\ save_idx' = save_idx + 1
                /\ IF save_idx + 1 = Len(Saves)
                   THEN pc' = "csv_start" /\ concat_df' = <<>> /\ reports' = <<>>
                   ELSE UNCHANGED <<pc, concat_df, reports>>
                /\ UNCHANGED error
    /\ UNCHANGED hunter_df
    /\ UNCHANGED summarize_vars
    /\ UNCHANGED reconcile_vars
    /\ UNCHANGED <<n_files, file_idx, log_exists, new_changes_strings_list, ledger_ops,
                   email_msg, sent, txt_file>>
    /\ UNCHANGED utils_vars

NextCsv ==
    \/ CsvStart
    \/ CsvCollect
    \/ CsvSave

SpecCsv == InitCsv /\ [][NextCsv]_vars

---------------------------------------------------------------------------
(* Vocabulary of the properties of the csv update. *)
CsvRunEnded == pc = "csv_start" /\ runs >= 1

\* The file holds the rows read at the start of the run and one row more.
GainedOneRow(name) ==
    /\ Len(csv_files[name]) = Len(hunter_df[name]) + 1
    /\ SubSeq(csv_files[name], 1, Len(hunter_df[name])) = hunter_df[name]

\* C30: after a nightly run of create_hunter_csv either each of the six csv files
\* has gained exactly one row, its rows before unchanged, or none of the six
\* files has been modified, also when the latest results directory lacks the
\* report of one or more test types.
C30_AllOrNothingUpdate ==
    CsvRunEnded
        => \/ \A name \in CsvNames : GainedOneRow(name)
           \/ \A name \in CsvNames : csv_files[name] = hunter_df[name]

=============================================================================
